---- MODULE Spec2Model ----
(***************************************************************************)
(* Near-Earth objects, their close approaches, and the CSV / JSON writers. *)
(*                                                                         *)
(* models.py : NearEarthObject, CloseApproach (construction from a keyword *)
(*             mapping, fullname, time_str, __str__, __repr__, serialize)  *)
(* write.py  : write_to_csv, write_to_json                                 *)
(*                                                                         *)
(* Python values are tagged records, so that None, '', 0.0, NaN and False  *)
(* stay distinct and the truth test of an `if x:` is computed as Python    *)
(* computes it.  A float is held in ten-thousandths (v = 3312 is 0.3312),  *)
(* or is NaN.  Text is a TLA+ string.                                      *)
(***************************************************************************)
EXTENDS Integers, Sequences, FiniteSets, TLC

VARIABLES
    cls,          \* SpecModel: the class whose constructor is called
    info,         \* SpecModel: the keyword mapping given to the constructor
    made,         \* SpecModel: the constructed entity, or the raised error
    neos,         \* heap of NearEarthObject instances (sequence, by id)
    cas,          \* heap of CloseApproach instances (sequence, by id)
    out,          \* value returned by the last accessor call
    pc,           \* position of the running writer
    results,      \* the writer's input: the approach ids the iterable yields
    pos,          \* number of records the writer has taken from `results`
    handle,       \* the output file handle: "none", "open" or "closed"
    file,         \* the destination: text handed to it, then what is on disk
    results_json, \* write_to_json's accumulator list
    exc           \* the exception that left the writer, or "none"

vars == <<cls, info, made, neos, cas, out, pc, results, pos, handle, file,
          results_json, exc>>

(***************************************************************************)
(* Python values                                                           *)
(***************************************************************************)
PyNone == [t |-> "None"]

PyStr(s) == [t |-> "str", s |-> s]

PyBool(b) == [t |-> "bool", b |-> b]

PyFloat(v) == [t |-> "float", nan |-> FALSE, v |-> v]

PyNaN == [t |-> "float", nan |-> TRUE, v |-> 0]

PyRef(i) == [t |-> "ref", id |-> i]

PyDict(items) == [t |-> "dict", items |-> items]

PyList(items) == [t |-> "list", items |-> items]

Raise(e) == [t |-> "raise", exc |-> e]

IsRaise(x) == x.t = "raise"

\* Python's truth test, as used by every `if value:` of both files.
\* NaN is a non-zero float and therefore true.
Truthy(x) ==
    CASE x.t = "None"  -> FALSE
      [] x.t = "str"   -> x.s # ""
      [] x.t = "bool"  -> x.b
      [] x.t = "float" -> x.nan \/ x.v # 0
      [] x.t = "dict"  -> x.items # <<>>
      [] x.t = "list"  -> x.items # <<>>
      [] OTHER         -> TRUE

\* `'key' in info and info['key']`
Has(m, k) == k \in DOMAIN m /\ Truthy(m[k])

(***************************************************************************)
(* Numbers and text                                                        *)
(***************************************************************************)
Digit(d) ==
    CASE d = 0 -> "0" [] d = 1 -> "1" [] d = 2 -> "2" [] d = 3 -> "3"
      [] d = 4 -> "4" [] d = 5 -> "5" [] d = 6 -> "6" [] d = 7 -> "7"
      [] d = 8 -> "8" [] d = 9 -> "9"

RECURSIVE NatStr(_)
NatStr(n) == IF n < 10 THEN Digit(n) ELSE NatStr(n \div 10) \o Digit(n % 10)

\* n written with exactly w digits, zero-padded on the left.
RECURSIVE Padded(_, _)
Padded(n, w) == IF w = 0 THEN "" ELSE Padded(n \div 10, w - 1) \o Digit(n % 10)

Pow10(p) == CASE p = 0 -> 1 [] p = 1 -> 10 [] p = 2 -> 100 [] p = 3 -> 1000
              [] p = 4 -> 10000

\* The fraction f (of w digits) without its trailing zeros; one digit is kept.
RECURSIVE Fraction(_, _)
Fraction(f, w) ==
    IF w > 1 /\ f % 10 = 0 THEN Fraction(f \div 10, w - 1) ELSE Padded(f, w)

\* str(x) / repr(x) of a float: the shortest text that reads back as x.
FloatStr(x) ==
    IF x.nan THEN "nan"
    ELSE LET a == IF x.v < 0 THEN 0 - x.v ELSE x.v
         IN  (IF x.v < 0 THEN "-" ELSE "")
             \o NatStr(a \div 10000) \o "." \o Fraction(a % 10000, 4)

\* Number of binary digits of the natural number n (0 for 0).
RECURSIVE BitLen(_)
BitLen(n) == IF n = 0 THEN 0 ELSE 1 + BitLen(n \div 2)

\* Where the double nearest to a decimal value lies: 0 when the value is a
\* double itself, 1 when the double is above it, -1 when below.  rem is
\* the part of the value (in ten-thousandths) not yet expanded in binary,
\* need the mantissa bits still to come after the leading one (a double
\* has 53); the first bit beyond the mantissa decides the rounding.
RECURSIVE DoubleSide(_, _, _)
DoubleSide(rem, need, started) ==
    IF rem = 0 THEN 0
    ELSE LET bit == 2 * rem >= 10000
             r2  == (2 * rem) % 10000
         IN  IF started /\ need = 0 THEN (IF bit THEN 1 ELSE -1)
             ELSE IF started THEN DoubleSide(r2, need - 1, TRUE)
             ELSE IF bit THEN DoubleSide(r2, 52, TRUE)
             ELSE DoubleSide(r2, need, FALSE)

\* f"{x:.pf}" for p in 0..4: the double is rounded to p decimals.  A
\* decimal tie (2.675 at two decimals) is no tie for the double unless the
\* value is a double itself: it goes the way the double lies (2.67), and
\* to the even digit only when exact (0.125 gives 0.12).
FloatFixed(x, p) ==
    IF x.nan THEN "nan"
    ELSE LET a    == IF x.v < 0 THEN 0 - x.v ELSE x.v
             unit == Pow10(4 - p)
             q    == a \div unit
             r    == a % unit
             side == DoubleSide(a % 10000, 53 - BitLen(a \div 10000), a >= 10000)
             up   == \/ 2 * r > unit
                     \/ 2 * r = unit /\ (side = 1 \/ (side = 0 /\ q % 2 = 1))
             n    == IF up THEN q + 1 ELSE q
         IN  (IF x.v < 0 THEN "-" ELSE "")
             \o NatStr(n \div Pow10(p)) \o "." \o Padded(n % Pow10(p), p)

\* float(value) on the numeric texts of the data files; any other text is
\* not a number and raises ValueError, None raises TypeError.
PyFloatOf(x) ==
    CASE x.t = "float" -> x
      [] x.t = "None"  -> Raise("TypeError")
      [] x.t = "str" /\ x.s = "0"      -> PyFloat(0)
      [] x.t = "str" /\ x.s = "0.0"    -> PyFloat(0)
      [] x.t = "str" /\ x.s = "0.15"   -> PyFloat(1500)
      [] x.t = "str" /\ x.s = "0.3312" -> PyFloat(3312)
      [] x.t = "str" /\ x.s = "0.0025" -> PyFloat(25)
      [] x.t = "str" /\ x.s = "0.125"  -> PyFloat(1250)
      [] x.t = "str" /\ x.s = "2.675"  -> PyFloat(26750)
      [] x.t = "str" /\ x.s = "5.02"   -> PyFloat(50200)
      [] x.t = "str" /\ x.s = "16.84"  -> PyFloat(168400)
      [] x.t = "str" /\ x.s = "16.840" -> PyFloat(168400)
      [] x.t = "str" /\ x.s = "nan"    -> PyNaN
      [] OTHER -> Raise("ValueError")

\* repr(value) as the !r conversions of the __repr__ methods need it.
PyRepr(x) ==
    CASE x.t = "None"  -> "None"
      [] x.t = "str"   -> "'" \o x.s \o "'"
      [] x.t = "bool"  -> IF x.b THEN "True" ELSE "False"
      [] x.t = "float" -> FloatStr(x)

\* sep.join(parts)
RECURSIVE Join(_, _)
Join(parts, sep) ==
    IF parts = <<>> THEN ""
    ELSE IF Len(parts) = 1 THEN parts[1]
    ELSE parts[1] \o sep \o Join(Tail(parts), sep)

(***************************************************************************)
(* helpers.cd_to_datetime / helpers.datetime_to_str                        *)
(***************************************************************************)
PyDatetime(y, mo, d, h, mi) ==
    [t |-> "datetime", y |-> y, mo |-> mo, d |-> d, h |-> h, mi |-> mi]

\* cd_to_datetime(text): the calendar dates of the data ("2025-Jan-01 06:00")
\* become timestamps; any other text is not a date.
cd_to_datetime(x) ==
    CASE x.t = "str" /\ x.s = "2025-Jan-01 06:00" -> PyDatetime(2025, 1, 1, 6, 0)
      [] x.t = "str" /\ x.s = "1900-Dec-27 01:30" -> PyDatetime(1900, 12, 27, 1, 30)
      [] OTHER -> Raise("ValueError")

\* datetime_to_str(time): date, hour and minute, no seconds; a missing time
\* is given as a fixed sentinel text.
datetime_to_str(x) ==
    IF x.t = "None" THEN "an unknown time"
    ELSE Padded(x.y, 4) \o "-" \o Padded(x.mo, 2) \o "-" \o Padded(x.d, 2)
         \o " " \o Padded(x.h, 2) \o ":" \o Padded(x.mi, 2)

(***************************************************************************)
(* models.py: NearEarthObject                                              *)
(***************************************************************************)
\* Variant: only the presence of the key is tested, not its value.
NeoDesignationKeyOnly(i) ==
    IF "pdes" \in DOMAIN i THEN i.pdes ELSE Raise("KeyError")

\* lines 40-43: the primary designation, or KeyError.
NeoDesignation(i) == IF Has(i, "pdes") THEN i.pdes ELSE Raise("KeyError")

\* lines 44-47
NeoName(i) == IF Has(i, "name") THEN i.name ELSE PyNone

\* Variant: an unknown diameter defaults to 0.0, as distance and velocity do.
NeoDiameterZeroDefault(i) ==
    IF Has(i, "diameter") THEN PyFloatOf(i.diameter) ELSE PyFloat(0)

\* lines 48-51: float() may raise.
NeoDiameter(i) == IF Has(i, "diameter") THEN PyFloatOf(i.diameter) ELSE PyNaN

\* lines 52-59
NeoHazardous(i) ==
    IF Has(i, "pha") THEN PyBool(i.pha = PyStr("Y")) ELSE PyBool(FALSE)

\* NearEarthObject(**info): the new object, or the exception raised.
NeoInit(i) ==
    IF IsRaise(NeoDesignation(i)) THEN NeoDesignation(i)
    ELSE IF IsRaise(NeoDiameter(i)) THEN NeoDiameter(i)
    ELSE [t           |-> "NearEarthObject",
          designation |-> NeoDesignation(i),
          name        |-> NeoName(i),
          diameter    |-> NeoDiameter(i),
          hazardous   |-> NeoHazardous(i),
          approaches  |-> <<>>]

\* NearEarthObject.fullname
fullname(neo) ==
    IF Truthy(neo.name)
    THEN neo.designation.s \o " (" \o neo.name.s \o ")"
    ELSE neo.designation.s

\* NearEarthObject.__str__
NeoStr(neo) ==
    LET hazardous_string == IF Truthy(neo.hazardous) THEN "is" ELSE "is not"
    IN  "NEO " \o fullname(neo) \o " "
        \o "has a diameter of " \o FloatFixed(neo.diameter, 3) \o " km "
        \o "and " \o hazardous_string \o " potentially hazardous."

\* NearEarthObject.__repr__
NeoRepr(neo) ==
    "NearEarthObject(designation=" \o PyRepr(neo.designation)
    \o ", name=" \o PyRepr(neo.name) \o ", "
    \o "diameter=" \o FloatFixed(neo.diameter, 3)
    \o ", hazardous=" \o PyRepr(neo.hazardous) \o ")"

\* Variant: the name attribute is passed through, None included.
NeoSerializeRawName(neo) ==
    PyDict(<< [k |-> "designation", v |-> neo.designation],
              [k |-> "name", v |-> neo.name],
              [k |-> "diameter_km", v |-> neo.diameter],
              [k |-> "potentially_hazardous", v |-> neo.hazardous] >>)

\* NearEarthObject.serialize: a new dict, keys in insertion order.
NeoSerialize(neo) ==
    PyDict(<< [k |-> "designation", v |-> neo.designation],
              [k |-> "name",
               v |-> IF Truthy(neo.name) THEN neo.name ELSE PyStr("")],
              [k |-> "diameter_km", v |-> neo.diameter],
              [k |-> "potentially_hazardous", v |-> neo.hazardous] >>)

(***************************************************************************)
(* models.py: CloseApproach                                                *)
(***************************************************************************)
\* lines 120-123: the raw designation, or KeyError.
CaDesignation(i) == IF Has(i, "des") THEN i.des ELSE Raise("KeyError")

\* lines 124-127: the date parser may raise.
CaTime(i) == IF Has(i, "cd") THEN cd_to_datetime(i.cd) ELSE PyNone

\* lines 128-131
CaDistance(i) == IF Has(i, "dist") THEN PyFloatOf(i.dist) ELSE PyFloat(0)

\* lines 132-135
CaVelocity(i) == IF Has(i, "v_rel") THEN PyFloatOf(i.v_rel) ELSE PyFloat(0)

\* CloseApproach(**info): the new object, or the exception raised.
CaInit(i) ==
    IF IsRaise(CaDesignation(i)) THEN CaDesignation(i)
    ELSE IF IsRaise(CaTime(i)) THEN CaTime(i)
    ELSE IF IsRaise(CaDistance(i)) THEN CaDistance(i)
    ELSE IF IsRaise(CaVelocity(i)) THEN CaVelocity(i)
    ELSE [t            |-> "CloseApproach",
          _designation |-> CaDesignation(i),
          time         |-> CaTime(i),
          distance     |-> CaDistance(i),
          velocity     |-> CaVelocity(i),
          neo          |-> PyNone]

\* CloseApproach.time_str
time_str(ca) == datetime_to_str(ca.time)

\* `result.neo.<attribute>`: the linked object in heap h, or AttributeError
\* when neo is still None.
NeoOf(ca, h) == IF ca.neo.t = "ref" THEN h[ca.neo.id] ELSE Raise("AttributeError")

\* CloseApproach.__str__
CaStr(ca, h) ==
    IF IsRaise(NeoOf(ca, h)) THEN NeoOf(ca, h)
    ELSE PyStr("At " \o time_str(ca) \o ", "
               \o "'" \o fullname(NeoOf(ca, h)) \o "' approaches Earth "
               \o "at a distance of " \o FloatFixed(ca.distance, 2) \o " au "
               \o "and a velocity of " \o FloatFixed(ca.velocity, 2) \o " km/s.")

\* CloseApproach.__repr__ (repr(None) is 'None': no attribute is read)
CaRepr(ca, h) ==
    PyStr("CloseApproach(time=" \o PyRepr(PyStr(time_str(ca)))
          \o ", distance=" \o FloatFixed(ca.distance, 2) \o ", "
          \o "velocity=" \o FloatFixed(ca.velocity, 2)
          \o ", neo=" \o (IF IsRaise(NeoOf(ca, h)) THEN "None"
                          ELSE NeoRepr(NeoOf(ca, h))) \o ")")

\* CloseApproach.serialize: a new dict, keys in insertion order.
CaSerialize(ca) ==
    PyDict(<< [k |-> "datetime_utc", v |-> PyStr(time_str(ca))],
              [k |-> "distance_au", v |-> ca.distance],
              [k |-> "velocity_km_s", v |-> ca.velocity] >>)

(***************************************************************************)
(* Linkage (the database constructor): every approach whose raw            *)
(* designation names a known NEO gets that NEO as `neo`, and is appended   *)
(* to that NEO's `approaches`.                                             *)
(***************************************************************************)
Owner(ns, ca) ==
    IF \E i \in 1..Len(ns) : ns[i].designation = ca._designation
    THEN PyRef(CHOOSE i \in 1..Len(ns) :
                   /\ ns[i].designation = ca._designation
                   /\ \A k \in 1..(i - 1) : ns[k].designation # ca._designation)
    ELSE PyNone

LinkedCas(ns, cs) ==
    [j \in 1..Len(cs) |-> [cs[j] EXCEPT !.neo = Owner(ns, cs[j])]]

RECURSIVE ApproachesOf(_, _, _, _)
ApproachesOf(ns, cs, i, j) ==
    IF j > Len(cs) THEN <<>>
    ELSE (IF Owner(ns, cs[j]) = PyRef(i) THEN <<PyRef(j)>> ELSE <<>>)
         \o ApproachesOf(ns, cs, i, j + 1)

LinkedNeos(ns, cs) ==
    [i \in 1..Len(ns) |-> [ns[i] EXCEPT !.approaches = ApproachesOf(ns, cs, i, 1)]]

(***************************************************************************)
(* write.py                                                                *)
(***************************************************************************)
PyTuple(items) == [t |-> "tuple", items |-> items]

\* line 27
field_names ==
    << "datetime_utc", "distance_au", "velocity_km_s", "designation", "name",
       "diameter_km", "potentially_hazardous" >>

\* line 33: ','.join(field_names) + '\n'
HeaderLine == Join(field_names, ",") \o "\n"

\* Variant: an unknown (NaN) diameter is rendered empty, like a zero one.
CsvFieldsNanEmpty(ca, h) ==
    LET distance == IF Truthy(ca.distance) THEN FloatStr(ca.distance) ELSE ""
        velocity == IF Truthy(ca.velocity) THEN FloatStr(ca.velocity) ELSE ""
        neo      == NeoOf(ca, h)
        name     == IF Truthy(neo.name) THEN neo.name.s ELSE ""
        diameter == IF Truthy(neo.diameter) /\ ~neo.diameter.nan
                    THEN FloatStr(neo.diameter) ELSE ""
        hazardous == IF Truthy(neo.hazardous) THEN "True" ELSE "False"
    IN  IF IsRaise(neo) THEN neo
        ELSE PyTuple(<< time_str(ca), distance, velocity, ca._designation.s,
                        name, diameter, hazardous >>)

\* lines 36-57: the tuple result_str of one record, or AttributeError when
\* result.neo is None (raised at line 44, the first use of result.neo).
CsvFields(ca, h) ==
    LET distance == IF Truthy(ca.distance) THEN FloatStr(ca.distance) ELSE ""
        velocity == IF Truthy(ca.velocity) THEN FloatStr(ca.velocity) ELSE ""
        neo      == NeoOf(ca, h)
        name     == IF Truthy(neo.name) THEN neo.name.s ELSE ""
        diameter == IF Truthy(neo.diameter) THEN FloatStr(neo.diameter) ELSE ""
        hazardous == IF Truthy(neo.hazardous) THEN "True" ELSE "False"
    IN  IF IsRaise(neo) THEN neo
        ELSE PyTuple(<< time_str(ca), distance, velocity, ca._designation.s,
                        name, diameter, hazardous >>)

\* line 58: ','.join(result_str) + '\n'
CsvLine(fields) == Join(fields.items, ",") \o "\n"

\* json's text for a value (json.dump's default separators; NaN is written
\* as the bare word NaN).
RECURSIVE JsonEncode(_)
JsonEncode(x) ==
    CASE x.t = "None"  -> "null"
      [] x.t = "bool"  -> IF x.b THEN "true" ELSE "false"
      [] x.t = "float" -> IF x.nan THEN "NaN" ELSE FloatStr(x)
      [] x.t = "str"   -> "\"" \o x.s \o "\""
      [] x.t = "list"  ->
            "[" \o Join([n \in 1..Len(x.items) |-> JsonEncode(x.items[n])], ", ")
                \o "]"
      [] x.t = "dict"  ->
            "{" \o Join([n \in 1..Len(x.items) |->
                            "\"" \o x.items[n].k \o "\": "
                                 \o JsonEncode(x.items[n].v)], ", ")
                \o "}"

\* d[k] = v on a dict that has no key k yet: the item goes last.
SetItem(d, k, v) == PyDict(Append(d.items, [k |-> k, v |-> v]))

\* Variant: the NEO's items are merged into the element (dict.update)
\* instead of being nested under the key 'neo'.
JsonElementMerged(ca, h) ==
    IF IsRaise(NeoOf(ca, h)) THEN NeoOf(ca, h)
    ELSE PyDict(CaSerialize(ca).items \o NeoSerialize(NeoOf(ca, h)).items)

\* lines 75-77: the element built for one record, or AttributeError when
\* result.neo is None (line 75).
JsonElement(ca, h) ==
    IF IsRaise(NeoOf(ca, h)) THEN NeoOf(ca, h)
    ELSE LET neo_serialized    == NeoSerialize(NeoOf(ca, h))
             result_serialized == CaSerialize(ca)
         IN  SetItem(result_serialized, "neo", neo_serialized)

\* Variant: serialize() normalises the attribute it reads (self.name = '').
NeoAfterSerializeNormalised(neo) ==
    [neo EXCEPT !.name = IF Truthy(neo.name) THEN neo.name ELSE PyStr("")]

\* serialize() assigns only to its local `serialized`: the object it is
\* called on is the same afterwards (models.py lines 87-97, 167-173).
NeoAfterSerialize(neo) == neo

CaAfterSerialize(ca) == ca

(***************************************************************************)
(* Inputs                                                                  *)
(***************************************************************************)
MaxResults == 2

Absent == [t |-> "absent"]

\* The keyword mapping that holds the keys of f whose value is not Absent.
Mapping(f) == [k \in {x \in DOMAIN f : f[x] # Absent} |-> f[k]]

PdesValues == {Absent, PyNone, PyStr(""), PyStr("433")}

NameValues == {Absent, PyNone, PyStr(""), PyStr("Eros")}

DiameterValues ==
    {Absent, PyStr(""), PyStr("0"), PyStr("16.84"), PyStr("0.0025"), PyStr("abc")}

PhaValues == {Absent, PyStr(""), PyStr("Y"), PyStr("N")}

CdValues == {Absent, PyStr(""), PyStr("2025-Jan-01 06:00")}

DistValues ==
    {Absent, PyStr(""), PyStr("0"), PyStr("0.3312"), PyStr("2.675"), PyStr("abc")}

VrelValues == {Absent, PyStr(""), PyStr("0"), PyStr("5.02"), PyStr("0.125")}

\* Every mapping carries a key the constructors do not read.
NeoInfos ==
    { Mapping([pdes |-> a, name |-> b, diameter |-> c, pha |-> d,
               orbit_id |-> PyStr("JPL 1")]) :
        a \in PdesValues, b \in NameValues, c \in DiameterValues, d \in PhaValues }

CaInfos ==
    { Mapping([des |-> a, cd |-> b, dist |-> c, v_rel |-> d,
               orbit_id |-> PyStr("JPL 1")]) :
        a \in PdesValues, b \in CdValues, c \in DistValues, d \in VrelValues }

Pending == [t |-> "pending"]

NoCall == [op |-> "none", on |-> PyNone, ret |-> PyNone]

Returned(op, on, ret) == [op |-> op, on |-> on, ret |-> ret]

OldContent == << "(previous content)" >>

(***************************************************************************)
(* Construction of one entity (SpecModel)                                  *)
(***************************************************************************)
WriterIdle ==
    /\ pc = "idle" /\ results = <<>> /\ pos = 0 /\ handle = "none"
    /\ file = OldContent /\ results_json = <<>> /\ exc = "none"

InitModel ==
    /\ cls \in {"NearEarthObject", "CloseApproach"}
    /\ info \in (IF cls = "NearEarthObject" THEN NeoInfos ELSE CaInfos)
    /\ made = Pending
    /\ neos = <<>>
    /\ cas = <<>>
    /\ out = NoCall
    /\ WriterIdle

UnchangedWriter == UNCHANGED <<pc, results, pos, handle, file, results_json, exc>>

\* NearEarthObject(**info)
NewNeo ==
    /\ made = Pending /\ cls = "NearEarthObject"
    /\ IF IsRaise(NeoInit(info))
       THEN made' = NeoInit(info) /\ neos' = neos
       ELSE made' = PyRef(Len(neos) + 1) /\ neos' = Append(neos, NeoInit(info))
    /\ UNCHANGED <<cls, info, cas, out>>
    /\ UnchangedWriter

\* CloseApproach(**info)
NewCa ==
    /\ made = Pending /\ cls = "CloseApproach"
    /\ IF IsRaise(CaInit(info))
       THEN made' = CaInit(info) /\ cas' = cas
       ELSE made' = PyRef(Len(cas) + 1) /\ cas' = Append(cas, CaInit(info))
    /\ UNCHANGED <<cls, info, neos, out>>
    /\ UnchangedWriter

(***************************************************************************)
(* Accessor calls on the entities of the heap                              *)
(***************************************************************************)
GetFullname(i) ==
    /\ pc = "idle"
    /\ out' = Returned("NearEarthObject.fullname", PyRef(i), PyStr(fullname(neos[i])))
    /\ UNCHANGED <<cls, info, made, neos, cas>>
    /\ UnchangedWriter

CallNeoStr(i) ==
    /\ pc = "idle"
    /\ out' = Returned("NearEarthObject.__str__", PyRef(i), PyStr(NeoStr(neos[i])))
    /\ UNCHANGED <<cls, info, made, neos, cas>>
    /\ UnchangedWriter

CallNeoRepr(i) ==
    /\ pc = "idle"
    /\ out' = Returned("NearEarthObject.__repr__", PyRef(i), PyStr(NeoRepr(neos[i])))
    /\ UNCHANGED <<cls, info, made, neos, cas>>
    /\ UnchangedWriter

CallNeoSerialize(i) ==
    /\ pc = "idle"
    /\ out' = Returned("NearEarthObject.serialize", PyRef(i), NeoSerialize(neos[i]))
    /\ neos' = [neos EXCEPT ![i] = NeoAfterSerialize(@)]
    /\ UNCHANGED <<cls, info, made, cas>>
    /\ UnchangedWriter

GetTimeStr(j) ==
    /\ pc = "idle"
    /\ out' = Returned("CloseApproach.time_str", PyRef(j), PyStr(time_str(cas[j])))
    /\ UNCHANGED <<cls, info, made, neos, cas>>
    /\ UnchangedWriter

CallCaStr(j) ==
    /\ pc = "idle"
    /\ out' = Returned("CloseApproach.__str__", PyRef(j), CaStr(cas[j], neos))
    /\ UNCHANGED <<cls, info, made, neos, cas>>
    /\ UnchangedWriter

CallCaRepr(j) ==
    /\ pc = "idle"
    /\ out' = Returned("CloseApproach.__repr__", PyRef(j), CaRepr(cas[j], neos))
    /\ UNCHANGED <<cls, info, made, neos, cas>>
    /\ UnchangedWriter

CallCaSerialize(j) ==
    /\ pc = "idle"
    /\ out' = Returned("CloseApproach.serialize", PyRef(j), CaSerialize(cas[j]))
    /\ cas' = [cas EXCEPT ![j] = CaAfterSerialize(@)]
    /\ UNCHANGED <<cls, info, made, neos>>
    /\ UnchangedWriter

NeoCall ==
    \E i \in 1..Len(neos) :
        GetFullname(i) \/ CallNeoStr(i) \/ CallNeoRepr(i) \/ CallNeoSerialize(i)

CaCall ==
    \E j \in 1..Len(cas) :
        GetTimeStr(j) \/ CallCaStr(j) \/ CallCaRepr(j) \/ CallCaSerialize(j)

NextModel == NewNeo \/ NewCa \/ NeoCall \/ CaCall

SpecModel == InitModel /\ [][NextModel]_vars

(***************************************************************************)
(* The loaded database (Spec): two NEOs and three approaches, constructed  *)
(* from their records and linked.  The first NEO and the first approach    *)
(* range over the field values; the third approach names an unknown NEO,   *)
(* so its `neo` stays None.                                                *)
(***************************************************************************)
NeoRecords ==
    { << Mapping([pdes |-> PyStr("433"), name |-> b, diameter |-> c, pha |-> d]),
         [pdes |-> PyStr("1036"), name |-> PyStr("Ganymed"),
          diameter |-> PyStr(""), pha |-> PyStr("Y")] >> :
        b \in {Absent, PyStr("Eros")},
        c \in {Absent, PyStr("0"), PyStr("16.84")},
        d \in {PyStr("Y"), PyStr("N")} }

CaRecords ==
    { << Mapping([des |-> PyStr("433"), cd |-> b, dist |-> c, v_rel |-> d]),
         [des |-> PyStr("1036"), cd |-> PyStr("1900-Dec-27 01:30"),
          dist |-> PyStr("0.3312"), v_rel |-> PyStr("5.02")],
         [des |-> PyStr("2020 AB"), cd |-> PyStr("2025-Jan-01 06:00"),
          dist |-> PyStr("0.15"), v_rel |-> PyStr("16.84")] >> :
        b \in {Absent, PyStr("2025-Jan-01 06:00")},
        c \in {Absent, PyStr("0.15")},
        d \in {PyStr("0"), PyStr("5.02")} }

Init ==
    /\ cls = "none"
    /\ info = [orbit_id |-> PyStr("JPL 1")]
    /\ made = Pending
    /\ \E nr \in NeoRecords, cr \in CaRecords :
          LET ns == [n \in 1..Len(nr) |-> NeoInit(nr[n])]
              cs == [n \in 1..Len(cr) |-> CaInit(cr[n])]
          IN  /\ neos = LinkedNeos(ns, cs)
              /\ cas = LinkedCas(ns, cs)
    /\ out = NoCall
    /\ WriterIdle

(***************************************************************************)
(* The writers' input: what iterating `results` yields, in order.  An item *)
(* is an approach of the heap or, for a lazy iterable that fails, the      *)
(* error its next() raises (nothing is yielded after that).                *)
(***************************************************************************)
IterError == Raise("RuntimeError")

Streams ==
    UNION { { r \in [1..n -> {PyRef(j) : j \in 1..Len(cas)} \cup {IterError}] :
                \A k \in 1..(n - 1) : r[k] # IterError } : n \in 0..MaxResults }

UnchangedModel == UNCHANGED <<cls, info, made>>

(***************************************************************************)
(* The output file.  While the handle is open, `file` is the text handed   *)
(* to it, one chunk per write of the writer; the file object buffers it    *)
(* (the text of a few records is far below the buffer size), so it reaches *)
(* the disk when the with block is left and the handle is closed.  A       *)
(* destination that accepts fewer bytes than the text makes that flush     *)
(* fail: the handle is closed all the same, OSError leaves the writer, and *)
(* the file keeps the bytes that fitted.                                   *)
(***************************************************************************)
\* Bytes a failing destination accepts before it refuses more.
DiskRoom == {0, 10, 100}

RECURSIVE TextLen(_)
TextLen(w) == IF w = <<>> THEN 0 ELSE Len(w[1]) + TextLen(Tail(w))

\* The first `room` bytes of the chunks w.
RECURSIVE Cut(_, _)
Cut(w, room) ==
    IF w = <<>> \/ room = 0 THEN <<>>
    ELSE IF Len(w[1]) <= room THEN <<w[1]>> \o Cut(Tail(w), room - Len(w[1]))
    ELSE << SubSeq(w[1], 1, room) >>

\* Leaving `with open(...) as f:` with the text w handed to f: on the way
\* to pcDone (a return, or the propagation of excDone), unless the flush
\* fails.
LeaveWith(w, pcDone, excDone, pcFail) ==
    /\ handle' = "closed"
    /\ \/ file' = w /\ pc' = pcDone /\ exc' = excDone
       \/ \E room \in DiskRoom :
             /\ room < TextLen(w)
             /\ file' = Cut(w, room) /\ pc' = pcFail /\ exc' = "OSError"

(***************************************************************************)
(* write_to_csv(results, filename)                                         *)
(***************************************************************************)
CsvCall ==
    /\ pc = "idle"
    /\ \E r \in Streams : results' = r
    /\ pc' = "csv_open"
    /\ out' = NoCall
    /\ UNCHANGED <<neos, cas, pos, handle, file, results_json, exc>>
    /\ UnchangedModel

\* line 31: open(filename, 'w') truncates the destination, or fails.
CsvOpen ==
    /\ pc = "csv_open"
    /\ \/ handle' = "open" /\ file' = <<>> /\ pc' = "csv_header" /\ exc' = exc
       \/ handle' = handle /\ file' = file /\ pc' = "csv_raised" /\ exc' = "OSError"
    /\ UNCHANGED <<neos, cas, out, results, pos, results_json>>
    /\ UnchangedModel

\* line 33
CsvHeader ==
    /\ pc = "csv_header"
    /\ file' = Append(file, HeaderLine) /\ pc' = "csv_loop"
    /\ UNCHANGED <<neos, cas, out, results, pos, handle, results_json, exc>>
    /\ UnchangedModel

\* Variant: a row equal to one already written is not written again.
CsvRowDeduplicated ==
    /\ pc = "csv_loop" /\ pos < Len(results)
    /\ pos' = pos + 1
    /\ LET item == results[pos + 1]
           row  == CsvFields(cas[item.id], neos)
       IN  IF IsRaise(item)
           THEN LeaveWith(file, "csv_raised", item.exc, "csv_raised")
           ELSE IF IsRaise(row)
           THEN LeaveWith(file, "csv_raised", row.exc, "csv_raised")
           ELSE /\ file' = IF \E n \in 1..Len(file) : file[n] = CsvLine(row)
                           THEN file ELSE Append(file, CsvLine(row))
                /\ UNCHANGED <<pc, handle, exc>>
    /\ UNCHANGED <<neos, cas, out, results, results_json>>
    /\ UnchangedModel

\* Variant: the file is opened without a with block, so an error in the
\* loop leaves the function with the handle still open.
CsvRowNoWith ==
    /\ pc = "csv_loop" /\ pos < Len(results)
    /\ pos' = pos + 1
    /\ LET item == results[pos + 1]
           row  == CsvFields(cas[item.id], neos)
       IN  IF IsRaise(item)
           THEN /\ pc' = "csv_raised" /\ exc' = item.exc
                /\ UNCHANGED <<handle, file>>
           ELSE IF IsRaise(row)
           THEN /\ pc' = "csv_raised" /\ exc' = row.exc
                /\ UNCHANGED <<handle, file>>
           ELSE /\ file' = Append(file, CsvLine(row))
                /\ UNCHANGED <<pc, handle, exc>>
    /\ UNCHANGED <<neos, cas, out, results, results_json>>
    /\ UnchangedModel

\* Variant: on an error the partial output is discarded (the file is
\* emptied) before the error propagates.
CsvRowCleansUp ==
    /\ pc = "csv_loop" /\ pos < Len(results)
    /\ pos' = pos + 1
    /\ LET item == results[pos + 1]
           row  == CsvFields(cas[item.id], neos)
       IN  IF IsRaise(item)
           THEN LeaveWith(<<>>, "csv_raised", item.exc, "csv_raised")
           ELSE IF IsRaise(row)
           THEN LeaveWith(<<>>, "csv_raised", row.exc, "csv_raised")
           ELSE /\ file' = Append(file, CsvLine(row))
                /\ UNCHANGED <<pc, handle, exc>>
    /\ UNCHANGED <<neos, cas, out, results, results_json>>
    /\ UnchangedModel

\* lines 35-58: one pass of the for loop.  An error raised by next() or by
\* the derivation of the row leaves the with block.
CsvRow ==
    /\ pc = "csv_loop" /\ pos < Len(results)
    /\ pos' = pos + 1
    /\ LET item == results[pos + 1]
           row  == CsvFields(cas[item.id], neos)
       IN  IF IsRaise(item)
           THEN LeaveWith(file, "csv_raised", item.exc, "csv_raised")
           ELSE IF IsRaise(row)
           THEN LeaveWith(file, "csv_raised", row.exc, "csv_raised")
           ELSE /\ file' = Append(file, CsvLine(row))
                /\ UNCHANGED <<pc, handle, exc>>
    /\ UNCHANGED <<neos, cas, out, results, results_json>>
    /\ UnchangedModel

\* The iterable is exhausted: the with block ends.
CsvDone ==
    /\ pc = "csv_loop" /\ pos = Len(results)
    /\ LeaveWith(file, "csv_returned", exc, "csv_raised")
    /\ UNCHANGED <<neos, cas, out, results, pos, results_json>>
    /\ UnchangedModel

(***************************************************************************)
(* write_to_json(results, filename)                                        *)
(***************************************************************************)
\* Variant: the destination is opened (and truncated) before the loop, as
\* write_to_csv does.
JsonCallOpensFirst ==
    /\ pc = "idle"
    /\ \E r \in Streams : results' = r
    /\ pc' = "json_loop"
    /\ results_json' = <<>>
    /\ out' = NoCall
    /\ handle' = "open" /\ file' = <<>>
    /\ UNCHANGED <<neos, cas, pos, exc>>
    /\ UnchangedModel

\* line 72
JsonCall ==
    /\ pc = "idle"
    /\ \E r \in Streams : results' = r
    /\ pc' = "json_loop"
    /\ results_json' = <<>>
    /\ out' = NoCall
    /\ UNCHANGED <<neos, cas, pos, handle, file, exc>>
    /\ UnchangedModel

\* lines 74-78: one pass of the for loop.
JsonRow ==
    /\ pc = "json_loop" /\ pos < Len(results)
    /\ pos' = pos + 1
    /\ LET item == results[pos + 1]
           ca   == cas[item.id]
           elem == JsonElement(ca, neos)
       IN  IF IsRaise(item)
           THEN /\ pc' = "json_raised" /\ exc' = item.exc
                /\ UNCHANGED <<neos, cas, results_json>>
           ELSE IF IsRaise(elem)
           THEN /\ pc' = "json_raised" /\ exc' = elem.exc
                /\ UNCHANGED <<neos, cas, results_json>>
           ELSE /\ results_json' = Append(results_json, elem)
                /\ neos' = [neos EXCEPT ![ca.neo.id] = NeoAfterSerialize(@)]
                /\ cas' = [cas EXCEPT ![item.id] = CaAfterSerialize(@)]
                /\ UNCHANGED <<pc, exc>>
    /\ UNCHANGED <<out, results, handle, file>>
    /\ UnchangedModel

\* The iterable is exhausted: the loop ends.
JsonLoopEnd ==
    /\ pc = "json_loop" /\ pos = Len(results)
    /\ pc' = "json_open"
    /\ UNCHANGED <<neos, cas, out, results, pos, handle, file, results_json, exc>>
    /\ UnchangedModel

\* line 80: open(filename, 'w') truncates the destination, or fails.
JsonOpen ==
    /\ pc = "json_open"
    /\ \/ handle' = "open" /\ file' = <<>> /\ pc' = "json_dump" /\ exc' = exc
       \/ handle' = handle /\ file' = file /\ pc' = "json_raised" /\ exc' = "OSError"
    /\ UNCHANGED <<neos, cas, out, results, pos, results_json>>
    /\ UnchangedModel

\* line 81: json.dump(results_json, f) hands the text of the list to f,
\* then the with block ends.
JsonDump ==
    /\ pc = "json_dump"
    /\ LeaveWith(Append(file, JsonEncode(PyList(results_json))),
                 "json_returned", exc, "json_raised")
    /\ UNCHANGED <<neos, cas, out, results, pos, results_json>>
    /\ UnchangedModel

Next ==
    \/ NeoCall \/ CaCall
    \/ CsvCall \/ CsvOpen \/ CsvHeader \/ CsvRow \/ CsvDone
    \/ JsonCall \/ JsonRow \/ JsonLoopEnd \/ JsonOpen \/ JsonDump

Spec == Init /\ [][Next]_vars

(***************************************************************************)
(* Properties                                                              *)
(***************************************************************************)
InCsv == pc \in {"csv_open", "csv_header", "csv_loop", "csv_returned", "csv_raised"}

InJson ==
    pc \in {"json_loop", "json_open", "json_dump", "json_returned", "json_raised"}

Finished == pc \in {"csv_returned", "csv_raised", "json_returned", "json_raised"}

\* The record the i-th item of the input names, and its NEO.
Record(n) == cas[results[n].id]

NeoOfRecord(n) == neos[Record(n).neo.id]

\* The CSV line of the n-th input record.
RowOfRecord(n) == CsvLine(CsvFields(Record(n), neos))

\* C1: when write_to_csv returns, the file holds exactly n+1 lines: the
\* fixed header, then the row of each input record, in input order, none
\* skipped, duplicated, merged or moved; every item of the input has been
\* taken exactly once.
C1_CsvHeaderThenOneRowPerRecord ==
    pc = "csv_returned" =>
        /\ pos = Len(results)
        /\ Len(file) = Len(results) + 1
        /\ file[1] = "datetime_utc,distance_au,velocity_km_s,designation,name,"
                     \o "diameter_km,potentially_hazardous\n"
        /\ \A n \in 1..Len(results) : file[n + 1] = RowOfRecord(n)

C1_Witness ==
    /\ pc = "csv_returned"
    /\ Len(results) = 2
    /\ results[1] = results[2]
    /\ Len(file) = 3

\* The element the claim describes for the n-th input record: the
\* approach's mapping, then the key 'neo' with the NEO's mapping.
ElementOfRecord(n) ==
    PyDict(<< [k |-> "datetime_utc", v |-> CaSerialize(Record(n)).items[1].v],
              [k |-> "distance_au", v |-> CaSerialize(Record(n)).items[2].v],
              [k |-> "velocity_km_s", v |-> CaSerialize(Record(n)).items[3].v],
              [k |-> "neo", v |-> NeoSerialize(NeoOfRecord(n))] >>)

\* C2: when write_to_json returns, the file holds one array of exactly n
\* elements, element i being ri.serialize() (keys datetime_utc,
\* distance_au, velocity_km_s) with the key 'neo' mapped to
\* ri.neo.serialize(), in input order; for the empty input it holds '[]'.
C2_JsonArrayOfSerializedRecords ==
    pc = "json_returned" =>
        /\ Len(results_json) = Len(results)
        /\ \A n \in 1..Len(results) :
              /\ [m \in 1..3 |-> CaSerialize(Record(n)).items[m].k]
                    = <<"datetime_utc", "distance_au", "velocity_km_s">>
              /\ results_json[n] = ElementOfRecord(n)
        /\ file = << JsonEncode(PyList([n \in 1..Len(results) |-> ElementOfRecord(n)])) >>
        /\ (results = <<>> => file = << "[]" >>)

C2_Witness ==
    /\ pc = "json_returned"
    /\ Len(results) = 2
    /\ results[1] # results[2]
    /\ NeoOfRecord(1).diameter = PyNaN

\* C3: no writer is left with the file handle open: once write_to_csv or
\* write_to_json has returned or raised, the handle it opened is closed
\* (or was never opened).
C3_HandleClosedOnEveryExit ==
    Finished => handle # "open"

C3_Witness ==
    /\ pc = "csv_raised"
    /\ exc = "AttributeError"
    /\ handle = "closed"
    /\ pos = 2

\* The designation key of the class under construction.
DesignationKey == IF cls = "NearEarthObject" THEN "pdes" ELSE "des"

\* A field that is absent from the mapping, empty or otherwise falsy.
Missing(k) == k \notin DOMAIN info \/ info[k] \in {PyNone, PyStr("")}

\* C4: constructing a NearEarthObject without a 'pdes' value (absent, empty
\* or falsy), or a CloseApproach without a 'des' value, raises the
\* missing-required-field error and yields no entity, whatever the other
\* fields are; with the designation present and non-empty that error is
\* never raised.
C4_MissingDesignationRaises ==
    made # Pending =>
        /\ Missing(DesignationKey) => made = Raise("KeyError") /\ neos = <<>> /\ cas = <<>>
        /\ ~Missing(DesignationKey) => made # Raise("KeyError")

C4_Witness ==
    /\ cls = "NearEarthObject"
    /\ made = Raise("KeyError")
    /\ "pdes" \in DOMAIN info /\ info.pdes = PyStr("")
    /\ ~Missing("name") /\ ~Missing("diameter")

\* What the claim gives for a number in a CSV field: empty for exactly 0.0,
\* the number's text otherwise (the NaN literal for NaN).
EmptyIfZero(x) == IF x = PyFloat(0) THEN "" ELSE IF x = PyNaN THEN "nan" ELSE FloatStr(x)

\* A line that has reached the file whole (a failed flush can leave the
\* leading part of one as the last thing in the file).
WholeLine(line) == line # "" /\ SubSeq(line, Len(line), Len(line)) = "\n"

\* C5: in every data row of the CSV file each field follows the empty-value
\* policy on its own: distance_au / velocity_km_s / diameter_km are empty
\* iff the value is exactly 0.0 (so a NaN diameter is the NaN text), name
\* is empty iff neo.name is None or empty, potentially_hazardous is 'True'
\* or 'False', datetime_utc and designation are never empty.
C5_CsvEmptyValuePolicy ==
    InCsv =>
        \A n \in 1..(Len(file) - 1) : WholeLine(file[n + 1]) =>
            LET ca  == Record(n)
                neo == NeoOfRecord(n)
                f   == CsvFields(ca, neos).items
            IN  /\ file[n + 1] =
                      time_str(ca) \o "," \o EmptyIfZero(ca.distance)
                      \o "," \o EmptyIfZero(ca.velocity)
                      \o "," \o ca._designation.s
                      \o "," \o (IF neo.name \in {PyNone, PyStr("")} THEN "" ELSE neo.name.s)
                      \o "," \o EmptyIfZero(neo.diameter)
                      \o "," \o (IF neo.hazardous = PyBool(TRUE) THEN "True" ELSE "False")
                      \o "\n"
                /\ time_str(ca) # "" /\ ca._designation.s # ""
                /\ (f[2] = "") = (ca.distance = PyFloat(0))
                /\ (f[3] = "") = (ca.velocity = PyFloat(0))
                /\ (f[5] = "") = (neo.name \in {PyNone, PyStr("")})
                /\ (f[6] = "") = (neo.diameter = PyFloat(0))
                /\ f[7] \in {"True", "False"}
                /\ f[1] # "" /\ f[4] # ""

C5_Witness ==
    /\ pc = "csv_returned"
    /\ Len(results) = 1
    /\ Record(1).distance = PyFloat(0)
    /\ Record(1).velocity # PyFloat(0)
    /\ NeoOfRecord(1).diameter = PyNaN
    /\ NeoOfRecord(1).name = PyNone
    /\ file[2] = "an unknown time,,5.02,433,,nan,True\n"

\* The text of the array write_to_json has built.
ArrayText == JsonEncode(PyList(results_json))

\* C6 as stated: the array reaches the destination in one atomic write, so
\* the destination is never seen holding part of it: it holds what it held
\* before, or nothing (just truncated), or the whole array; and it is not
\* opened or written before every input record has been serialized.
C6_OneAtomicWrite ==
    /\ pc = "json_loop" => handle = "none" /\ file = OldContent
    /\ InJson /\ (handle # "none" \/ file # OldContent) =>
          pos = Len(results) /\ Len(results_json) = Len(results)
    /\ InJson /\ file \notin {OldContent, <<>>} => file = << ArrayText >>
    /\ pc = "csv_loop" => handle = "open" /\ Len(file) = pos + 1

\* C6, amended: write_to_json does not open or write the destination
\* before every input record has been serialized into the in-memory array,
\* and the array is then emitted by one dump after the loop, so that on
\* return the file holds exactly the whole array; the write is not atomic:
\* when it fails the destination is left holding nothing or a leading part
\* of the array.  write_to_csv, in contrast, has the file open during its
\* loop and has written one line per record taken.
C6_JsonWrittenOnceAfterTheLoop ==
    /\ pc = "json_loop" => handle = "none" /\ file = OldContent
    /\ InJson /\ (handle # "none" \/ file # OldContent) =>
          pos = Len(results) /\ Len(results_json) = Len(results)
    /\ pc = "json_returned" => file = << ArrayText >>
    /\ InJson /\ file \notin {OldContent, <<>>} =>
          /\ Len(file) = 1
          /\ Len(file[1]) <= Len(ArrayText)
          /\ file[1] = SubSeq(ArrayText, 1, Len(file[1]))
          /\ file[1] # ArrayText => pc = "json_raised" /\ exc = "OSError"
    /\ pc = "csv_loop" => handle = "open" /\ Len(file) = pos + 1

C6_Witness ==
    /\ pc = "json_raised"
    /\ exc = "OSError"
    /\ handle = "closed"
    /\ Len(results) = 2
    /\ file = << "[{\"datetim" >>

OtherKeys ==
    IF cls = "NearEarthObject" THEN {"name", "diameter", "pha"}
    ELSE {"cd", "dist", "v_rel"}

\* C7: with the designation present, a missing, empty or falsy field never
\* makes construction raise, and the defaults hold: a NearEarthObject has
\* name None, diameter NaN (a float, and not the 0.0 that diameter="0"
\* gives), hazardous False and no approaches; a CloseApproach has time
\* None, distance 0.0, velocity 0.0 and neo None.
C7_DefaultsForMissingFields ==
    made # Pending /\ ~Missing(DesignationKey) =>
        /\ IsRaise(made) => \E k \in OtherKeys : ~Missing(k)
        /\ cls = "NearEarthObject" /\ ~IsRaise(made) =>
              LET o == neos[made.id]
              IN  /\ Missing("name") => o.name = PyNone
                  /\ Missing("diameter") =>
                        o.diameter.t = "float" /\ o.diameter.nan
                        /\ o.diameter # PyFloat(0)
                  /\ ~Missing("diameter") /\ info.diameter = PyStr("0") =>
                        o.diameter = PyFloat(0)
                  /\ Missing("pha") => o.hazardous = PyBool(FALSE)
                  /\ o.approaches = <<>>
        /\ cls = "CloseApproach" /\ ~IsRaise(made) =>
              LET o == cas[made.id]
              IN  /\ Missing("cd") => o.time = PyNone
                  /\ Missing("dist") => o.distance = PyFloat(0)
                  /\ Missing("v_rel") => o.velocity = PyFloat(0)
                  /\ o.neo = PyNone

C7_Witness ==
    /\ cls = "NearEarthObject"
    /\ made = PyRef(1)
    /\ DOMAIN info = {"pdes", "orbit_id"}
    /\ neos[1].diameter = PyNaN

\* C8: serialize() of a NearEarthObject returns a mapping with exactly the
\* keys designation, name, diameter_km, potentially_hazardous; name is
\* always a string, the NEO's name or '' when it has none; diameter_km and
\* potentially_hazardous are the attributes unchanged.
C8_NeoSerializeShape ==
    out.op = "NearEarthObject.serialize" =>
        LET neo == neos[out.on.id]
            d   == out.ret.items
        IN  /\ [n \in 1..Len(d) |-> d[n].k]
                  = <<"designation", "name", "diameter_km", "potentially_hazardous">>
            /\ d[1].v = neo.designation
            /\ d[2].v.t = "str"
            /\ d[2].v = (IF neo.name \in {PyNone, PyStr("")} THEN PyStr("") ELSE neo.name)
            /\ d[3].v = neo.diameter
            /\ d[4].v = neo.hazardous

C8_Witness ==
    /\ out.op = "NearEarthObject.serialize"
    /\ neos[out.on.id].name = PyNone
    /\ neos[out.on.id].diameter = PyNaN
    /\ out.ret.items[2].v = PyStr("")

\* C9: after construction and linkage no operation (fullname, time_str,
\* string rendering, either serialize, write_to_csv, write_to_json)
\* changes an attribute of any entity, and a serialize() call repeated on
\* the same entity returns an equal mapping.
C9_EntitiesImmutable ==
    [][ /\ neos' = neos
        /\ cas' = cas
        /\ (out.op \in {"NearEarthObject.serialize", "CloseApproach.serialize"}
              /\ out'.op = out.op /\ out'.on = out.on) => out'.ret = out.ret ]_vars

C9_Witness ==
    /\ pc = "json_returned"
    /\ Len(results_json) = 2
    /\ NeoOfRecord(1).name = PyNone
    /\ results_json[1].items[4].v.items[2].v = PyStr("")

\* C10: when a writer fails on the k-th input record (its neo is None, or
\* the lazy input raises), the error reaches the caller and nothing is
\* cleaned up: write_to_csv leaves the destination truncated, holding the
\* header and the rows of records 1..k-1; write_to_json has not opened the
\* destination, which keeps its previous content.
C10_FailureLeavesPartialCsvUntouchedJson ==
    exc \in {"AttributeError", "RuntimeError"} =>
        /\ pc \in {"csv_raised", "json_raised"}
        /\ pc = "csv_raised" =>
              /\ Len(file) = pos
              /\ file[1] = HeaderLine
              /\ \A n \in 1..(pos - 1) : file[n + 1] = RowOfRecord(n)
        /\ pc = "json_raised" => handle = "none" /\ file = OldContent

C10_Witness ==
    /\ pc = "csv_raised"
    /\ exc = "RuntimeError"
    /\ pos = 2
    /\ file = << HeaderLine, RowOfRecord(1) >>

====
